---------------------------- MODULE Spec2Model ----------------------------
(***************************************************************************)
(* Verification model of deepquantum's layer catalogue (layer.py) and of   *)
(* the Clements interferometer mesh (photonic/ansatz.py).                  *)
(*                                                                         *)
(* Three specifications share the module:                                  *)
(*   SpecClements : Clements.__init__ and the walk of Clements.dict2data   *)
(*   SpecRing     : the construction of a CnotRing                         *)
(*   SpecLayer    : construction, inverse() and get_unitary() of layers,   *)
(*                  over an explicit heap of list and gate objects         *)
(***************************************************************************)
EXTENDS Integers, Sequences, FiniteSets, TLC

VARIABLES
    \* ---- Clements ----
    nmode,        \* self.nmode
    phi_first,    \* self.phi_first
    ops,          \* the operations appended by Clements.__init__, in order
    angle_dict,   \* the caller's dictionary, (wire, slot) |-> value
    pc,           \* position of the running dict2data call
    li,           \* loop variable i of the running loop
    lj,           \* loop variable j of the inner loop
    columns,      \* columns[w], indexed from wire 0
    data,         \* the list `data`
    ret,          \* the value returned by dict2data (<<>> while none)
    errkey,       \* the key of the KeyError raised (<<>> while none)
    walk,         \* history: the steps dict2data performed, in order
    looked,       \* history: the keys looked up by this call, in order
    visited,      \* history: the keys a completed call looked up
    \* ---- CnotRing ----
    ring,         \* the outcome of the CnotRing constructor call
    \* ---- layers ----
    heap,         \* the list, gate and nn.Sequential objects, by address
    lay,          \* the layer L
    inv,          \* L2 = L.inverse(), once taken
    orig,         \* history: the wire groups and gates of L as constructed
    prod,         \* get_unitary(L2) @ get_unitary(L), once computed
    edits         \* history: in-place changes made to L2 so far

cvars == <<nmode, phi_first, ops, angle_dict, pc, li, lj, columns, data, ret,
           errkey, walk, looked, visited>>
rvars == <<ring>>
lvars == <<heap, lay, inv, orig, prod, edits>>
vars == <<cvars, rvars, lvars>>

-----------------------------------------------------------------------------
(* Bounds of the model *)

MaxMode == 4
MaxMissing == 1
MaxQubit == 4
MaxStep == 5
MaxLayerQubit == 2
MaxGates == 2
MaxAngle == 3
MaxEdits == 1

-----------------------------------------------------------------------------
(* Python helpers *)

\* s[start::stride] of a Python list held as a 1-based sequence
SliceFrom(s, start, stride) ==
    IF Len(s) <= start THEN <<>>
    ELSE [k \in 1..((Len(s) - start + stride - 1) \div stride) |->
              s[start + (k - 1) * stride + 1]]

\* ss[1] \o ... \o ss[n]
RECURSIVE FlattenUpTo(_, _)
FlattenUpTo(ss, n) == IF n = 0 THEN <<>> ELSE FlattenUpTo(ss, n - 1) \o ss[n]

Flatten(ss) == FlattenUpTo(ss, Len(ss))

Range(s) == {s[k] : k \in 1..Len(s)}

-----------------------------------------------------------------------------
(* Clements.__init__ *)

\* QumodeCircuit.wires: the modes 0 .. nmode-1 in ascending order
ModeWires(n) == [k \in 1..n |-> k - 1]

Wires1(n) == SliceFrom(ModeWires(n), 1, 2)
Wires2(n) == SliceFrom(ModeWires(n), 2, 2)

\* for wire in self.wires: self.ps(wire, encode=True)
PsOps(n) == [k \in 1..n |-> [kind |-> "ps", wires |-> <<ModeWires(n)[k]>>]]

\* one pass of the inner loop: self.mzi([w[j] - 1, w[j]], ...)
MziRow(w) == [j \in 1..Len(w) |-> [kind |-> "mzi", wires |-> <<w[j] - 1, w[j]>>]]

\* the row appended by iteration i of `for i in range(nmode)`
InitRow(n, i) == IF i % 2 = 0 THEN MziRow(Wires1(n)) ELSE MziRow(Wires2(n))

\* the whole constructor: the operations in the order they are appended
ClementsOps(n, pf) ==
    (IF ~pf THEN PsOps(n) ELSE <<>>)
    \o Flatten([r \in 1..n |-> InitRow(n, r - 1)])
    \o (IF pf THEN PsOps(n) ELSE <<>>)


-----------------------------------------------------------------------------
(* Clements.dict2data *)

\* the (wire, slot) keys a caller may put in the dictionary
KeyUniverse(n) == {<<w, s>> : w \in 0..(n - 1), s \in 0..(n + 1)}

\* the caller's value for a key: a plain number, unique per key
Scalar(key) == [shape |-> "scalar", id |-> key]

\* torch.tensor(angle) if needed, then angle.reshape(-1): a 1-d tensor
Reshape(v) == [shape |-> "tensor1d", id |-> v.id]

\* for key in angle_dict.keys(): angle_dict[key] = angle.reshape(-1)
Coerce(d) == [k \in DOMAIN d |-> Reshape(d[k])]

\* a lookup that falls back to a default value instead of raising
LookupDefault(d, key) ==
    IF key \in DOMAIN d THEN [ok |-> TRUE, val |-> d[key]]
    ELSE [ok |-> TRUE, val |-> Reshape(Scalar(key))]

\* angle_dict[key]: the value, or a KeyError carrying the key
Lookup(d, key) ==
    IF key \in DOMAIN d THEN [ok |-> TRUE, val |-> d[key]]
    ELSE [ok |-> FALSE, val |-> key]

\* columns[i] += 1
ColumnsAfterPs(cols, w) == [cols EXCEPT ![w] = @ + 1]

\* a two-wire step that advances the counter by one slot only
ColumnsAfterMziByOne(cols, w) == [cols EXCEPT ![w] = @ + 1]

\* columns[wire] += 2
ColumnsAfterMzi(cols, w) == [cols EXCEPT ![w] = @ + 2]

\* appends in lookup order, whatever phi_first says
MziEmitLookupOrder(pf, first, second) == <<first, second>>

\* first is angle_dict[(wire, columns[wire])], second the slot after it;
\* phi and theta are bound per phi_first, then theta and phi are appended
MziEmit(pf, first, second) ==
    LET phi   == IF pf THEN first ELSE second
        theta == IF pf THEN second ELSE first
    IN  <<theta, phi>>

\* wires1 on even rows, wires2 on odd rows
RowWires(n, i) == IF i % 2 = 0 THEN Wires1(n) ELSE Wires2(n)

\* takes the right wire of the pair for the left one
LeftWireNoOffset(w, j) == w[j + 1]

\* wire = wires1[j] - 1
LeftWire(w, j) == w[j + 1] - 1

Raise(key) ==
    /\ pc' = "error"
    /\ errkey' = key
    /\ UNCHANGED <<data, columns, li, lj, ret>>

\* data.append(angle_dict[(i, columns[i])]); columns[i] += 1
PhaseStep ==
    LET key == <<li, columns[li]>>
        r   == Lookup(angle_dict, key)
    IN  /\ walk' = Append(walk, [kind |-> "ps", wire |-> li])
        /\ looked' = Append(looked, key)
        /\ IF r.ok
           THEN /\ data' = Append(data, r.val)
                /\ columns' = ColumnsAfterPs(columns, li)
                /\ li' = li + 1
                /\ UNCHANGED <<pc, lj, ret, errkey>>
           ELSE Raise(key)
        /\ UNCHANGED <<nmode, phi_first, ops, angle_dict, visited>>

\* one pass of the inner loop over w (wires1 or wires2)
MziStep(w) ==
    LET wire == LeftWire(w, lj)
        k1   == <<wire, columns[wire]>>
        k2   == <<wire, columns[wire] + 1>>
        r1   == Lookup(angle_dict, k1)
        r2   == Lookup(angle_dict, k2)
    IN  /\ walk' = Append(walk, [kind |-> "mzi", wire |-> wire])
        /\ IF ~r1.ok
           THEN /\ looked' = Append(looked, k1)
                /\ Raise(k1)
           ELSE /\ looked' = looked \o <<k1, k2>>
                /\ IF ~r2.ok
                   THEN Raise(k2)
                   ELSE /\ data' = data \o MziEmit(phi_first, r1.val, r2.val)
                        /\ columns' = ColumnsAfterMzi(columns, wire)
                        /\ lj' = lj + 1
                        /\ UNCHANGED <<pc, li, ret, errkey>>
        /\ UNCHANGED <<nmode, phi_first, ops, angle_dict, visited>>

\* entry of dict2data: lines 41-49
D2DCall ==
    /\ pc = "idle"
    /\ angle_dict' = Coerce(angle_dict)
    /\ data' = <<>>
    /\ columns' = [w \in 0..(nmode - 1) |-> 0]
    /\ li' = 0
    /\ lj' = 0
    /\ pc' = "pre"
    /\ walk' = <<>>
    /\ looked' = <<>>
    /\ UNCHANGED <<nmode, phi_first, ops, ret, errkey, visited>>

\* if not self.phi_first: for i in range(self.nmode): ...
D2DPhasePre ==
    /\ pc = "pre"
    /\ ~phi_first
    /\ li < nmode
    /\ PhaseStep

D2DEnterRows ==
    /\ pc = "pre"
    /\ phi_first \/ li = nmode
    /\ pc' = "rows"
    /\ li' = 0
    /\ lj' = 0
    /\ UNCHANGED <<nmode, phi_first, ops, angle_dict, columns, data, ret,
                   errkey, walk, looked, visited>>

\* i % 2 == 0: for j in range(len(wires1))
D2DMziEven ==
    /\ pc = "rows"
    /\ li < nmode
    /\ li % 2 = 0
    /\ lj < Len(Wires1(nmode))
    /\ MziStep(Wires1(nmode))

\* else: for j in range(len(wires2))
D2DMziOdd ==
    /\ pc = "rows"
    /\ li < nmode
    /\ li % 2 # 0
    /\ lj < Len(Wires2(nmode))
    /\ MziStep(Wires2(nmode))

\* the inner loop is exhausted: next i
D2DNextRow ==
    /\ pc = "rows"
    /\ li < nmode
    /\ lj = Len(RowWires(nmode, li))
    /\ li' = li + 1
    /\ lj' = 0
    /\ UNCHANGED <<nmode, phi_first, ops, angle_dict, pc, columns, data, ret,
                   errkey, walk, looked, visited>>

D2DEnterPost ==
    /\ pc = "rows"
    /\ li = nmode
    /\ pc' = "post"
    /\ li' = 0
    /\ UNCHANGED <<nmode, phi_first, ops, angle_dict, lj, columns, data, ret,
                   errkey, walk, looked, visited>>

\* if self.phi_first: for i in range(self.nmode): ...
D2DPhasePost ==
    /\ pc = "post"
    /\ phi_first
    /\ li < nmode
    /\ PhaseStep

\* return torch.cat(data)
D2DReturn ==
    /\ pc = "post"
    /\ ~phi_first \/ li = nmode
    /\ pc' = "done"
    /\ ret' = data
    /\ visited' = IF visited = {} THEN Range(looked) ELSE visited
    /\ UNCHANGED <<nmode, phi_first, ops, angle_dict, li, lj, columns, data,
                   errkey, walk, looked>>

\* the caller deletes one key and is ready to call dict2data again
DictDel ==
    /\ pc = "done"
    /\ Cardinality(KeyUniverse(nmode) \ DOMAIN angle_dict) < MaxMissing
    /\ \E key \in DOMAIN angle_dict :
          angle_dict' = [k \in (DOMAIN angle_dict) \ {key} |-> angle_dict[k]]
    /\ pc' = "idle"
    /\ ret' = <<>>
    /\ UNCHANGED <<nmode, phi_first, ops, li, lj, columns, data, errkey, walk,
                   looked, visited>>

\* no layer exists
NoLayer == [cls |-> "none", name |-> "", nqubit |-> 0, wires |-> 0, gates |-> 0,
            npara |-> 0]

EmptyHeap == [groups |-> <<>>, outers |-> <<>>, gobjs |-> <<>>, seqs |-> <<>>]

LayersIdle ==
    /\ heap = EmptyHeap
    /\ lay = NoLayer
    /\ inv = NoLayer
    /\ orig = [wires |-> <<>>, gates |-> <<>>]
    /\ prod = <<>>
    /\ edits = 0

\* no CnotRing has been requested yet
RingIdle ==
    [status |-> "none", nqubit |-> 0, given |-> FALSE, arg |-> <<>>,
     step |-> 0, reverse |-> FALSE, minmax |-> <<>>, wires |-> <<>>,
     gates |-> <<>>]

InitClements ==
    /\ nmode \in 1..MaxMode
    /\ phi_first \in BOOLEAN
    /\ ops = ClementsOps(nmode, phi_first)
    /\ angle_dict = [k \in KeyUniverse(nmode) |-> Scalar(k)]
    /\ pc = "idle"
    /\ li = 0
    /\ lj = 0
    /\ columns = [w \in 0..(nmode - 1) |-> 0]
    /\ data = <<>>
    /\ ret = <<>>
    /\ errkey = <<>>
    /\ walk = <<>>
    /\ looked = <<>>
    /\ visited = {}
    /\ ring = RingIdle
    /\ LayersIdle

NextClements ==
    \/ (D2DCall /\ UNCHANGED <<rvars, lvars>>)
    \/ (D2DPhasePre /\ UNCHANGED <<rvars, lvars>>)
    \/ (D2DEnterRows /\ UNCHANGED <<rvars, lvars>>)
    \/ (D2DMziEven /\ UNCHANGED <<rvars, lvars>>)
    \/ (D2DMziOdd /\ UNCHANGED <<rvars, lvars>>)
    \/ (D2DNextRow /\ UNCHANGED <<rvars, lvars>>)
    \/ (D2DEnterPost /\ UNCHANGED <<rvars, lvars>>)
    \/ (D2DPhasePost /\ UNCHANGED <<rvars, lvars>>)
    \/ (D2DReturn /\ UNCHANGED <<rvars, lvars>>)
    \/ (DictDel /\ UNCHANGED <<rvars, lvars>>)

SpecClements == InitClements /\ [][NextClements]_vars


-----------------------------------------------------------------------------
(* Properties of Clements.dict2data *)

Terminal == pc \in {"done", "error"}

\* the visited keys the dictionary now lacks
Gone == visited \ DOMAIN angle_dict

NoDuplicates(q) == \A a, b \in 1..Len(q) : a # b => q[a] # q[b]

\* C1: the k-th step of the dict2data walk is a phase step on wire w exactly
\* when the k-th constructed operation is a phase shifter on wire w, and a
\* two-wire step with left wire w exactly when the k-th constructed operation
\* is an MZI on wires [w, w+1]; a call that returns has walked as many steps
\* as there are constructed operations.
C1_WalkFollowsConstruction ==
    /\ Len(walk) <= Len(ops)
    /\ \A k \in 1..Len(walk) :
          /\ walk[k].kind = ops[k].kind
          /\ walk[k].kind = "ps" => ops[k].wires = <<walk[k].wire>>
          /\ walk[k].kind = "mzi" =>
                 ops[k].wires = <<walk[k].wire, walk[k].wire + 1>>
    /\ pc = "done" => Len(walk) = Len(ops)

C1_Witness ==
    /\ pc = "done"
    /\ nmode = 4
    /\ phi_first
    /\ Len(walk) = 10
    /\ walk[3].kind = "mzi"
    /\ walk[10].kind = "ps"

\* C7: for nmode >= 2, a call on a dictionary that lacks exactly one of the
\* keys the walk visits ends in a lookup error for that key and returns no
\* vector; a call on a dictionary holding every visited key returns a vector.
C7_MissingKeyRaises ==
    nmode >= 2 =>
        /\ (visited = {} /\ Terminal) => pc = "done"
        /\ (visited # {} /\ Cardinality(Gone) = 1 /\ Terminal) =>
               /\ pc = "error"
               /\ errkey \in Gone
               /\ ret = <<>>
        /\ (visited # {} /\ Gone = {} /\ Terminal) => pc = "done"
        /\ pc = "done" => (ret = data /\ ret # <<>>)

C7_Witness ==
    /\ nmode >= 2
    /\ phi_first
    /\ pc = "error"
    /\ errkey = <<0, 1>>
    /\ Gone = {<<0, 1>>}
    /\ ret = <<>>

\* C8: in a call that returns, the keys looked up are pairwise distinct, the
\* slots looked up on each wire are exactly 0 .. columns[wire]-1, nmode*nmode
\* keys are looked up in all, and the last wire is never a left wire and
\* contributes exactly one slot.
C8_SlotsConsumedOnce ==
    /\ NoDuplicates(looked)
    /\ pc = "done" =>
          /\ \A w \in 0..(nmode - 1) :
                {k[2] : k \in {x \in Range(looked) : x[1] = w}}
                    = 0..(columns[w] - 1)
          /\ Len(looked) = nmode * nmode
          /\ \A k \in 1..Len(walk) :
                walk[k].kind = "mzi" => walk[k].wire # nmode - 1
          /\ columns[nmode - 1] = 1

C8_Witness ==
    /\ pc = "done"
    /\ nmode = 3
    /\ Len(looked) = 9
    /\ columns[0] = 5

\* C9: a two-wire step with left wire w and counter c appends the theta value
\* and then the phi value: slot (w, c) then slot (w, c+1) when phi_first is
\* false, slot (w, c+1) then slot (w, c) when phi_first is true.
C9_ThetaBeforePhi ==
    [][(/\ Len(walk') = Len(walk) + 1
        /\ walk'[Len(walk')].kind = "mzi"
        /\ pc' # "error")
       => LET w == walk'[Len(walk')].wire
              c == columns[w]
          IN  data' = data \o
                (IF phi_first
                 THEN <<angle_dict[<<w, c + 1>>], angle_dict[<<w, c>>]>>
                 ELSE <<angle_dict[<<w, c>>], angle_dict[<<w, c + 1>>]>>)]_vars

C9_Witness ==
    /\ phi_first
    /\ Len(walk) = 1
    /\ walk[1].kind = "mzi"
    /\ Len(data) = 2
    /\ data[1].id = <<0, 1>>
    /\ data[2].id = <<0, 0>>


-----------------------------------------------------------------------------
(* CnotRing.__init__ *)

\* a remainder that keeps the sign of the dividend, as C's % does
TruncMod(a, b) == IF a >= 0 THEN a % b ELSE 0 - ((0 - a) % b)

\* Python's a % b for b > 0: the result lies in 0 .. b-1
PyMod(a, b) == a % b

\* a bounds check that lets low = high through
BoundsOkWeak(mm, nq) == mm[1] > -1 /\ mm[1] <= mm[2] /\ mm[2] < nq

\* assert minmax[0] > -1 and minmax[0] < minmax[1] and minmax[1] < nqubit
BoundsOk(mm, nq) == mm[1] > -1 /\ mm[1] < mm[2] /\ mm[2] < nq

\* if minmax is None: minmax = [0, nqubit-1]
EffectiveMinmax(given, arg, nq) == IF given THEN arg ELSE <<0, nq - 1>>

\* range(a, -1, -1): a, a-1, ..., 0
RangeDown(a) == [k \in 1..(a + 1) |-> a - (k - 1)]

\* range(n): 0, 1, ..., n-1
RangeUp(n) == [k \in 1..n |-> k - 1]

\* the list comprehensions of lines 244-248
RingWires(mm, step, reverse) ==
    LET nwires == mm[2] - mm[1] + 1
        down   == RangeDown(mm[2] - mm[1])
        up     == RangeUp(mm[2] - mm[1] + 1)
    IN  IF reverse
        THEN [k \in 1..Len(down) |->
                 <<mm[1] + down[k], mm[1] + PyMod(down[k] - step, nwires)>>]
        ELSE [k \in 1..Len(up) |->
                 <<mm[1] + up[k], mm[1] + PyMod(up[k] + step, nwires)>>]

\* DoubleLayer.__init__: for wire in self.wires: assert len(wire) == 2
DoubleArityOk(wires) == \A k \in 1..Len(wires) : Len(wires[k]) = 2

\* CnotLayer.__init__: one CNOT per wire group, in order
CnotGates(wires) ==
    [k \in 1..Len(wires) |->
        [kind |-> "cnot", params |-> <<>>, wires |-> wires[k], trainable |-> FALSE]]

\* the values a caller may pass as minmax entries
MinmaxValues == -1..MaxQubit

\* the lists a caller may pass as minmax
MinmaxLists == UNION {[1..n -> MinmaxValues] : n \in 0..3}

\* CnotRing(nqubit=nq, minmax=arg or None, step=step, reverse=reverse)
CnotRingInit(nq, given, arg, step, reverse) ==
    LET mm   == EffectiveMinmax(given, arg, nq)
        base == [RingIdle EXCEPT !.nqubit = nq, !.given = given, !.arg = arg,
                                 !.step = step, !.reverse = reverse]
    IN  IF Len(mm) # 2 \/ ~BoundsOk(mm, nq)
           THEN ring' = [base EXCEPT !.status = "error"]
           ELSE LET wires == RingWires(mm, step, reverse)
                IN  IF ~DoubleArityOk(wires)
                    THEN ring' = [base EXCEPT !.status = "error"]
                    ELSE ring' = [base EXCEPT !.status = "ok",
                                              !.minmax = mm,
                                              !.wires = wires,
                                              !.gates = CnotGates(wires)]

BuildRing ==
    /\ ring.status = "none"
    /\ \E nq \in 1..MaxQubit, given \in BOOLEAN, arg \in MinmaxLists,
          step \in (0 - MaxStep)..MaxStep, reverse \in BOOLEAN :
          /\ given \/ arg = <<>>
          /\ CnotRingInit(nq, given, arg, step, reverse)

InitRing ==
    /\ nmode = 1
    /\ phi_first = FALSE
    /\ ops = <<>>
    /\ angle_dict = <<>>
    /\ pc = "off"
    /\ li = 0
    /\ lj = 0
    /\ columns = <<>>
    /\ data = <<>>
    /\ ret = <<>>
    /\ errkey = <<>>
    /\ walk = <<>>
    /\ looked = <<>>
    /\ visited = {}
    /\ ring = RingIdle
    /\ LayersIdle

NextRing == BuildRing /\ UNCHANGED <<cvars, lvars>>

SpecRing == InitRing /\ [][NextRing]_vars

-----------------------------------------------------------------------------
(* Properties of CnotRing.__init__ *)

\* C5: a constructed ring has high-low+1 wire groups; without reverse the
\* first wires are low .. high ascending and the second wire of the group at
\* position p is low + ((p-low+step) mod (high-low+1)); with reverse the first
\* wires are high .. low descending and the second wire is
\* low + ((p-low-step) mod (high-low+1)); every wire lies in [low, high] and
\* each wire of the sub-range is the first wire of exactly one group.
C5_RingWiring ==
    ring.status = "ok" =>
        LET low  == ring.minmax[1]
            high == ring.minmax[2]
            nw   == high - low + 1
            w    == ring.wires
        IN  /\ Len(w) = nw
            /\ \A k \in 1..Len(w) :
                  LET p == w[k][1]
                      d == IF ring.reverse THEN 0 - ring.step ELSE ring.step
                  IN  /\ Len(w[k]) = 2
                      /\ p = IF ring.reverse THEN high - (k - 1)
                                             ELSE low + (k - 1)
                      /\ w[k][2] = low + ((p - low + d) % nw)
                      /\ w[k][1] \in low..high
                      /\ w[k][2] \in low..high
            /\ \A q \in low..high :
                  Cardinality({k \in 1..Len(w) : w[k][1] = q}) = 1

C5_Witness ==
    /\ ring.status = "ok"
    /\ ring.reverse
    /\ ring.step = 4
    /\ ring.minmax = <<1, 3>>
    /\ ring.wires = <<<<3, 2>>, <<2, 1>>, <<1, 3>>>>

\* C6: construction fails, building no wire groups and no gates, whenever the
\* bounds (explicit, or [0, nqubit-1] when none are given) violate
\* 0 <= low < high < nqubit, and succeeds whenever they satisfy it.
C6_BoundsValidated ==
    LET mm == IF ring.given THEN ring.arg ELSE <<0, ring.nqubit - 1>>
        ok == 0 <= mm[1] /\ mm[1] < mm[2] /\ mm[2] < ring.nqubit
    IN  (ring.status # "none" /\ Len(mm) = 2) =>
            /\ ~ok => (ring.status = "error" /\ ring.wires = <<>>
                       /\ ring.gates = <<>>)
            /\ ok => (ring.status = "ok" /\ ring.minmax = mm)

C6_Witness ==
    /\ ring.status = "error"
    /\ ring.given
    /\ ring.nqubit = 3
    /\ ring.arg = <<0, 3>>
    /\ ring.wires = <<>>

\* C10: every wire group of a constructed ring names two distinct wires.
C10_DistinctWires ==
    ring.status = "ok" =>
        \A k \in 1..Len(ring.wires) : ring.wires[k][1] # ring.wires[k][2]


-----------------------------------------------------------------------------
(* The Gate collaborator and the numeric backend.                          *)
(* A complex number is a pair <<re, im>> of integers; angles are integers  *)
(* counting multiples of pi (theta) or of pi/2 (the phases of U3), so that *)
(* every matrix entry is one of 0, 1, -1, i, -i and products are exact.    *)

CAdd(a, b) == <<a[1] + b[1], a[2] + b[2]>>
CMul(a, b) == <<a[1] * b[1] - a[2] * b[2], a[1] * b[2] + a[2] * b[1]>>
CNeg(a) == <<0 - a[1], 0 - a[2]>>
CConj(a) == <<a[1], 0 - a[2]>>
CZero == <<0, 0>>
COne == <<1, 0>>

\* exp(i k pi/2)
IPow(k) == CASE k % 4 = 0 -> <<1, 0>>
             [] k % 4 = 1 -> <<0, 1>>
             [] k % 4 = 2 -> <<-1, 0>>
             [] OTHER     -> <<0, -1>>

\* cos(k pi/2) and sin(k pi/2)
CosHalf(k) == <<IPow(k)[1], 0>>
SinHalf(k) == <<IPow(k)[2], 0>>

\* torch.eye(d)
Identity(d) == [r \in 1..d |-> [c \in 1..d |-> IF r = c THEN COne ELSE CZero]]

\* the conjugate transpose
Dagger(m) == [r \in 1..Len(m) |-> [c \in 1..Len(m) |-> CConj(m[c][r])]]

RECURSIVE DotFrom(_, _, _, _, _)
DotFrom(a, b, r, c, k) ==
    IF k = 0 THEN CZero
    ELSE CAdd(DotFrom(a, b, r, c, k - 1), CMul(a[r][k], b[k][c]))

\* a @ b
MatMul(a, b) ==
    [r \in 1..Len(a) |-> [c \in 1..Len(a) |-> DotFrom(a, b, r, c, Len(a))]]

\* torch.kron(a, b)
Kron(a, b) ==
    LET d == Len(b)
    IN  [r \in 1..(Len(a) * d) |-> [c \in 1..(Len(a) * d) |->
            CMul(a[((r - 1) \div d) + 1][((c - 1) \div d) + 1],
                 b[((r - 1) % d) + 1][((c - 1) % d) + 1])]]

\* the Kronecker product of lst[1] .. lst[n], left to right
RECURSIVE KronUpTo(_, _)
KronUpTo(lst, n) ==
    IF n = 1 THEN lst[1] ELSE Kron(KronUpTo(lst, n - 1), lst[n])

\* multi_kron(lst)
MultiKron(lst) == KronUpTo(lst, Len(lst))

\* a gate object
GateNew(kind, params, wires, trainable) ==
    [kind |-> kind, params |-> params, wires |-> wires, trainable |-> trainable]

\* gate.npara
GateNpara(g) == Len(g.params)

\* gate.update_matrix()
GateMatrix(g) ==
    CASE g.kind = "rx" ->
           LET c == CosHalf(g.params[1])
               s == CMul(<<0, -1>>, SinHalf(g.params[1]))
           IN  <<<<c, s>>, <<s, c>>>>
      [] g.kind = "ry" ->
           LET c == CosHalf(g.params[1])
               s == SinHalf(g.params[1])
           IN  <<<<c, CNeg(s)>>, <<s, c>>>>
      [] g.kind = "rz" ->
           <<<<IPow(0 - g.params[1]), CZero>>, <<CZero, IPow(g.params[1])>>>>
      [] g.kind = "u3" ->
           LET c == CosHalf(g.params[1])
               s == SinHalf(g.params[1])
           IN  <<<<c, CNeg(CMul(IPow(g.params[3]), s))>>,
                 <<CMul(IPow(g.params[2]), s),
                   CMul(IPow(g.params[2] + g.params[3]), c)>>>>
      [] OTHER ->
           <<<<COne, CZero, CZero, CZero>>, <<CZero, COne, CZero, CZero>>,
             <<CZero, CZero, CZero, COne>>, <<CZero, CZero, COne, CZero>>>>

\* gate.inverse(): a new gate on the same wires whose matrix is the inverse
GateInverse(g) ==
    CASE g.kind \in {"rx", "ry", "rz"} ->
           [g EXCEPT !.params = <<0 - g.params[1]>>]
      [] g.kind = "u3" ->
           [g EXCEPT !.params = <<0 - g.params[1], 0 - g.params[3],
                                  0 - g.params[2]>>]
      [] OTHER -> g


-----------------------------------------------------------------------------
(* Layers over the heap.  A layer holds the address of its wires list (a   *)
(* list of addresses of wire-group lists) and of its nn.Sequential (a list *)
(* of addresses of gates).                                                 *)

RotClasses == {"U3Layer", "RxLayer", "RyLayer", "RzLayer"}
CnotClasses == {"CnotLayer", "CnotRing"}

Reverse(q) == [k \in 1..Len(q) |-> q[Len(q) + 1 - k]]

\* the wire groups of a layer, by address and by value
GroupRefs(h, l) == h.outers[l.wires]
GroupValues(h, l) == [k \in 1..Len(GroupRefs(h, l)) |-> h.groups[GroupRefs(h, l)[k]]]

\* the gates of a layer, by address and by value
GateRefs(h, l) == h.seqs[l.gates]
GateValues(h, l) == [k \in 1..Len(GateRefs(h, l)) |-> h.gobjs[GateRefs(h, l)[k]]]

\* what a reader of the layer sees
View(h, l) == [wires |-> GroupValues(h, l), gates |-> GateValues(h, l)]

\* wires = [[i] for i in range(nqubit)]
SingleDefault(nq) == [k \in 1..nq |-> <<k - 1>>]

\* wires = [[i, i + 1] for i in range(0, nqubit - 1, 2)]
DoubleDefault(nq) == [k \in 1..(nq \div 2) |-> <<2 * (k - 1), 2 * (k - 1) + 1>>]

\* for wire in self.wires: assert len(wire) == 1
SingleArityOk(wires) == \A k \in 1..Len(wires) : Len(wires[k]) = 1

RotKind(cls) ==
    CASE cls = "U3Layer" -> "u3"
      [] cls = "RxLayer" -> "rx"
      [] cls = "RyLayer" -> "ry"
      [] OTHER           -> "rz"

\* thetas = inputs[3*i:3*i+3] for U3Layer, theta = inputs[i] for the others
InputSlice(cls, inputs, i) ==
    IF cls = "U3Layer" THEN SubSeq(inputs, 3 * i + 1, 3 * i + 3)
    ELSE <<inputs[i + 1]>>

\* the gates appended by the constructor loop of a rotation layer
RotGates(cls, wires, inputs, trainable) ==
    [k \in 1..Len(wires) |->
        GateNew(RotKind(cls), InputSlice(cls, inputs, k - 1), wires[k], trainable)]

\* self.npara += gate.npara, over the first n gates
RECURSIVE NparaUpTo(_, _)
NparaUpTo(gs, n) == IF n = 0 THEN 0 ELSE NparaUpTo(gs, n - 1) + GateNpara(gs[n])

SumNpara(gs) == NparaUpTo(gs, Len(gs))

\* Layer.__init__ and the constructor loop: the layer keeps the list it is
\* given, and its gates go into a fresh nn.Sequential
NewLayer(cls, name, nq, wires, gates) ==
    [heap  |-> [groups |-> wires,
                outers |-> <<[k \in 1..Len(wires) |-> k]>>,
                gobjs  |-> gates,
                seqs   |-> <<[k \in 1..Len(gates) |-> k]>>],
     layer |-> [cls |-> cls, name |-> name, nqubit |-> nq, wires |-> 1,
                gates |-> 1, npara |-> SumNpara(gates)]]

\* deepcopy(self): every list and gate reachable from the layer is copied
DeepCopy(h, l) ==
    LET gr == GroupRefs(h, l)
        ga == GateRefs(h, l)
        h2 == [groups |-> h.groups \o [k \in 1..Len(gr) |-> h.groups[gr[k]]],
               outers |-> Append(h.outers,
                                 [k \in 1..Len(gr) |-> Len(h.groups) + k]),
               gobjs  |-> h.gobjs \o [k \in 1..Len(ga) |-> h.gobjs[ga[k]]],
               seqs   |-> Append(h.seqs,
                                 [k \in 1..Len(ga) |-> Len(h.gobjs) + k])]
    IN  [heap  |-> h2,
         layer |-> [l EXCEPT !.wires = Len(h2.outers), !.gates = Len(h2.seqs)]]

\* an inversion that keeps the wire-group order of the original
SameOrderRefs(refs) == refs

\* self.wires[::-1], and reversed(self.wires) appended one by one: a new
\* list holding the same wire-group objects in reverse order
ReversedRefs(refs) == Reverse(refs)

\* for gate in self.gates[::-1]: gates.append(gate.inverse())
InverseGates(gs) == [k \in 1..Len(gs) |-> GateInverse(Reverse(gs)[k])]

\* U3Layer.inverse, RxLayer.inverse, RyLayer.inverse, RzLayer.inverse
RotInverse(h, l) ==
    LET cp    == DeepCopy(h, l)
        h1    == cp.heap
        gates == InverseGates(GateValues(h, l))
        h2    == [h1 EXCEPT
                    !.gobjs  = @ \o gates,
                    !.seqs   = Append(@, [k \in 1..Len(gates) |->
                                              Len(h1.gobjs) + k]),
                    !.outers = Append(@, ReversedRefs(GroupRefs(h, l)))]
    IN  [heap  |-> h2,
         layer |-> [cp.layer EXCEPT !.gates = Len(h2.seqs),
                                    !.wires = Len(h2.outers)]]

\* CnotLayer.inverse (inherited by CnotRing): a CnotLayer over the reversed
\* list, with one new CNOT per wire group
CnotInverse(h, l) ==
    LET refs  == ReversedRefs(GroupRefs(h, l))
        gates == CnotGates([k \in 1..Len(refs) |-> h.groups[refs[k]]])
        h2    == [h EXCEPT
                    !.outers = Append(@, refs),
                    !.gobjs  = @ \o gates,
                    !.seqs   = Append(@, [k \in 1..Len(gates) |->
                                              Len(h.gobjs) + k])]
    IN  [heap  |-> h2,
         layer |-> [cls |-> "CnotLayer", name |-> l.name, nqubit |-> l.nqubit,
                    wires |-> Len(h2.outers), gates |-> Len(h2.seqs),
                    npara |-> 0]]

\* lst = [identity] * nqubit, then the first n passes of
\* for gate in self.gates: lst[gate.wires[0]] = gate.update_matrix()
RECURSIVE PerWireUpTo(_, _, _)
PerWireUpTo(nq, gs, n) ==
    IF n = 0 THEN [k \in 1..nq |-> Identity(2)]
    ELSE [PerWireUpTo(nq, gs, n - 1) EXCEPT ![gs[n].wires[1] + 1] = GateMatrix(gs[n])]

\* the list handed to multi_kron
PerWire(nq, gs) == PerWireUpTo(nq, gs, Len(gs))

\* SingleLayer.get_unitary
GetUnitary(h, l) == MultiKron(PerWire(l.nqubit, GateValues(h, l)))


-----------------------------------------------------------------------------
(* Construction, inversion and use of one layer *)

\* the lists of single-wire groups a caller may pass over nq wires
SingleWireLists(nq) ==
    UNION {[1..n -> {<<w>> : w \in 0..(nq - 1)}] : n \in 1..MaxGates}

\* the lists of two-wire groups a caller may pass over nq wires
WirePairs(nq) == {p \in (0..(nq - 1)) \X (0..(nq - 1)) : p[1] # p[2]}
DoubleWireLists(nq) == UNION {[1..n -> WirePairs(nq)] : n \in 1..MaxGates}

\* the parameter vectors: seed, seed + stride, seed + 2 stride, ...
InputVectors ==
    {[j \in 1..(3 * (MaxGates + MaxLayerQubit)) |-> seed + stride * (j - 1)] :
        seed \in 0..MaxAngle, stride \in 0..1}

\* U3Layer(...), RxLayer(...), RyLayer(...), RzLayer(...)
RotLayerInit(cls, nq, wires, inputs, trainable) ==
    NewLayer(cls, cls, nq, wires, RotGates(cls, wires, inputs, trainable))

\* CnotLayer(nqubit, wires, name): one CNOT per wire group
CnotLayerInit(name, nq, wires) ==
    NewLayer(name, name, nq, wires, CnotGates(wires))

InitLayerVars(b) ==
    /\ heap = b.heap
    /\ lay = b.layer
    /\ inv = NoLayer
    /\ orig = View(b.heap, b.layer)
    /\ prod = <<>>
    /\ edits = 0

InitLayer ==
    /\ nmode = 1
    /\ phi_first = FALSE
    /\ ops = <<>>
    /\ angle_dict = <<>>
    /\ pc = "off"
    /\ li = 0
    /\ lj = 0
    /\ columns = <<>>
    /\ data = <<>>
    /\ ret = <<>>
    /\ errkey = <<>>
    /\ walk = <<>>
    /\ looked = <<>>
    /\ visited = {}
    /\ ring = RingIdle
    /\ \/ \E cls \in RotClasses, nq \in 1..MaxLayerQubit, vec \in InputVectors,
             tr \in BOOLEAN :
             \E w \in SingleWireLists(nq) \cup {SingleDefault(nq)} :
                /\ SingleArityOk(w)
                /\ InitLayerVars(RotLayerInit(cls, nq, w, vec, tr))
       \/ \E nq \in 2..MaxLayerQubit :
             \E w \in DoubleWireLists(nq) \cup {DoubleDefault(nq)} :
                /\ DoubleArityOk(w)
                /\ InitLayerVars(CnotLayerInit("CnotLayer", nq, w))
       \/ \E nq \in 2..MaxLayerQubit, step \in 1..MaxGates, rev \in BOOLEAN :
             \E mm \in (0..(nq - 1)) \X (0..(nq - 1)) :
                /\ BoundsOk(mm, nq)
                /\ PyMod(step, mm[2] - mm[1] + 1) # 0
                /\ InitLayerVars(CnotLayerInit("CnotRing", nq,
                                               RingWires(mm, step, rev)))

\* L2 = L.inverse() on a U3Layer, RxLayer, RyLayer or RzLayer
InvertRot ==
    /\ lay.cls \in RotClasses
    /\ inv.cls = "none"
    /\ heap' = RotInverse(heap, lay).heap
    /\ inv' = RotInverse(heap, lay).layer
    /\ UNCHANGED <<lay, orig, prod, edits>>

\* L2 = L.inverse() on a CnotLayer or CnotRing
InvertCnot ==
    /\ lay.cls \in CnotClasses
    /\ inv.cls = "none"
    /\ heap' = CnotInverse(heap, lay).heap
    /\ inv' = CnotInverse(heap, lay).layer
    /\ UNCHANGED <<lay, orig, prod, edits>>

\* a caller's L2.wires[k][0] = v
EditGroup ==
    /\ inv.cls # "none"
    /\ prod = <<>>
    /\ edits < MaxEdits
    /\ \E k \in 1..Len(GroupRefs(heap, inv)), v \in 0..(inv.nqubit - 1) :
          LET a == GroupRefs(heap, inv)[k]
          IN  /\ heap.groups[a][1] # v
              /\ heap' = [heap EXCEPT !.groups[a][1] = v]
    /\ edits' = edits + 1
    /\ UNCHANGED <<lay, inv, orig, prod>>

\* a caller's in-place change of a gate of L2: its wires are set to v
EditGate ==
    /\ inv.cls # "none"
    /\ prod = <<>>
    /\ edits < MaxEdits
    /\ \E k \in 1..Len(GateRefs(heap, inv)), v \in 0..(inv.nqubit - 1) :
          LET a == GateRefs(heap, inv)[k]
          IN  /\ heap.gobjs[a].wires[1] # v
              /\ heap' = [heap EXCEPT !.gobjs[a].wires[1] = v]
    /\ edits' = edits + 1
    /\ UNCHANGED <<lay, inv, orig, prod>>

\* get_unitary(L2) @ get_unitary(L) on a rotation layer and its inverse
Compose ==
    /\ lay.cls \in RotClasses
    /\ inv.cls # "none"
    /\ edits = 0
    /\ prod = <<>>
    /\ Len(GateRefs(heap, lay)) > 0
    /\ Len(GateRefs(heap, inv)) > 0
    /\ prod' = MatMul(GetUnitary(heap, inv), GetUnitary(heap, lay))
    /\ UNCHANGED <<heap, lay, inv, orig, edits>>

NextLayer ==
    \/ (InvertRot /\ UNCHANGED <<cvars, rvars>>)
    \/ (InvertCnot /\ UNCHANGED <<cvars, rvars>>)
    \/ (EditGroup /\ UNCHANGED <<cvars, rvars>>)
    \/ (EditGate /\ UNCHANGED <<cvars, rvars>>)
    \/ (Compose /\ UNCHANGED <<cvars, rvars>>)

SpecLayer == InitLayer /\ [][NextLayer]_vars

-----------------------------------------------------------------------------
(* Properties of inverse() and get_unitary() *)

\* C2: after L2 = L.inverse() on a U3Layer, RxLayer, RyLayer, RzLayer or
\* CnotLayer, L's gates and wire groups read as they did at construction,
\* whatever is later changed in place in L2, and no list, wire group, gate
\* container or gate of L2 is the same object as one of L.
C2_InverseSharesNothing ==
    (lay.cls \in RotClasses \cup {"CnotLayer"} /\ inv.cls # "none") =>
        /\ View(heap, lay) = orig
        /\ lay.wires # inv.wires
        /\ lay.gates # inv.gates
        /\ Range(GroupRefs(heap, lay)) \cap Range(GroupRefs(heap, inv)) = {}
        /\ Range(GateRefs(heap, lay)) \cap Range(GateRefs(heap, inv)) = {}

\* C3: for a rotation layer L over n wires, get_unitary(L.inverse()) composed
\* with get_unitary(L) is the identity operator on the n wires.
C3_RoundTripIsIdentity ==
    prod # <<>> =>
        prod = MultiKron([k \in 1..lay.nqubit |-> Identity(2)])

\* C4: L.inverse() is a new layer with as many gates and wire groups as L has
\* gates; its gate i is the inverse of L's gate k-1-i, its wire group i equals
\* L's wire group k-1-i, and its gate i acts on its wire group i.
C4_InverseReversesAndInverts ==
    (inv.cls # "none" /\ edits = 0) =>
        LET vl == View(heap, lay)
            vi == View(heap, inv)
            k  == Len(vl.gates)
        IN  /\ inv.wires # lay.wires
            /\ inv.gates # lay.gates
            /\ Len(vl.wires) = k
            /\ Len(vi.gates) = k
            /\ Len(vi.wires) = k
            /\ \A n \in 1..k :
                  /\ vi.gates[n].kind = vl.gates[k + 1 - n].kind
                  /\ GateMatrix(vi.gates[n]) = Dagger(GateMatrix(vl.gates[k + 1 - n]))
                  /\ MatMul(GateMatrix(vi.gates[n]), GateMatrix(vl.gates[k + 1 - n]))
                        = Identity(Len(GateMatrix(vi.gates[n])))
                  /\ vi.wires[n] = vl.wires[k + 1 - n]
                  /\ vi.gates[n].wires = vi.wires[n]

C4_Witness ==
    /\ inv.cls # "none"
    /\ edits = 0
    /\ lay.cls = "U3Layer"
    /\ GroupValues(heap, lay) = <<<<1>>, <<0>>>>
    /\ GroupValues(heap, inv) = <<<<0>>, <<1>>>>
    /\ GateValues(heap, lay)[1].params = <<1, 2, 3>>
    /\ GateValues(heap, inv)[2].params = <<-1, -3, -2>>

\* a rotation layer whose wire groups are pairwise distinct wires composes
\* with its inverse to the identity
RoundTripOnDistinctWires ==
    (prod # <<>> /\ NoDuplicates(GroupValues(heap, lay))) =>
        prod = Identity(Len(prod))

=============================================================================
